---- MODULE Spec2Model ----
(***************************************************************************)
(* Order & inventory transaction engine of the OMS Flask backend           *)
(* (src/app.py): handle_create_order, update_order, delete_order and       *)
(* get_order over the SQLite tables products, orders, order_items and      *)
(* order_id_sequence.                                                      *)
(*                                                                         *)
(* Representation.  Money and rates are fixed point: a tax rate is kept    *)
(* in percent (GST_RATE = 0.05 is 5) and a total_cost is kept multiplied   *)
(* by RateScale, so subtotal + subtotal * gst_rate is                      *)
(* subtotal * RateScale + subtotal * rate.  An order id "ORD0001" is the   *)
(* tuple <<"ORD", 0, 0, 0, 1>>.  The header columns that no handler        *)
(* computes with (customer, dates, payment) are left out.                  *)
(***************************************************************************)
EXTENDS Integers, Sequences, FiniteSets, TLC

VARIABLES
    products,     \* table products:    sku -> [quantity, price, name]
    orders,       \* table orders:      id  -> [total_cost, gst_rate]
    order_items,  \* table order_items: rows in rowid order
    last_number,  \* table order_id_sequence, row id = 1
    call,         \* one caller at a time: its request and the response to it
    proc,         \* concurrent request threads: where each is in its handler
    write_lock,   \* the connection holding SQLite's write lock
    issued        \* the order ids returned by createOrder so far

db_vars == <<products, orders, order_items, last_number>>
conc_vars == <<proc, write_lock, issued>>
vars == <<products, orders, order_items, last_number, call, proc, write_lock, issued>>

----------------------------------------------------------------------------
(* Bounds of the model *)

MaxOrders == 2     \* order numbers issued in one run
MaxLines == 2      \* line items of one intent
MaxQty == 1        \* largest quantity of one line item
InitStock == 2     \* quantity of every product at start

(* Program constants *)

GST_RATE == 5      \* default GST rate, percent
RateScale == 100   \* totals are kept in hundredths: 1 + rate is RateScale + rate
IdWidth == 4       \* "ORD{n:04d}"

----------------------------------------------------------------------------
(* Inputs *)

Skus == {"A", "B", "X"}          \* "X" is never in the catalog
Catalog == {"A", "B"}
\* the price and the name the client sends with a line of a sku
ListPrice == [s \in Skus |-> CASE s = "A" -> 2 [] s = "B" -> 3 [] OTHER -> 5]
ListName == [s \in Skus |-> CASE s = "A" -> "helmet" [] s = "B" -> "gloves" [] OTHER -> "ghost"]
NoRate == << >>                  \* the payload has no gstRate key
RateInputs == {NoRate, <<10>>}   \* or it has one: <<rate>>
QtyVals == 0 .. MaxQty

Lines ==
    {[sku |-> s, product_name |-> ListName[s], quantity |-> q, price |-> ListPrice[s]] :
        s \in Skus, q \in QtyVals}

SeqsUpTo(S, n) == UNION {[1 .. k -> S] : k \in 0 .. n}

Intents == [items : SeqsUpTo(Lines, MaxLines), gstRate : RateInputs]

----------------------------------------------------------------------------
(* Order ids: f"ORD{new_number:04d}" *)

RECURSIVE DecDigits(_)
DecDigits(n) == IF n < 10 THEN <<n>> ELSE Append(DecDigits(n \div 10), n % 10)

RECURSIVE ZeroPad(_, _)
ZeroPad(s, w) == IF Len(s) >= w THEN s ELSE ZeroPad(<<0>> \o s, w)

FormatId(n) == <<"ORD">> \o ZeroPad(DecDigits(n), IdWidth)

OrderIds == {FormatId(n) : n \in 1 .. MaxOrders}

----------------------------------------------------------------------------
(* The database as one value, so that a handler is a function of it *)

DB == [products |-> products, orders |-> orders,
       order_items |-> order_items, last_number |-> last_number]

----------------------------------------------------------------------------
(* Helpers over rows and line items *)

SelectRows(rows, oid) == SelectSeq(rows, LAMBDA r : r.order_id = oid)

\* a bug: DELETE FROM order_items deletes nothing
OtherRowsKeepsAll(rows, oid) == rows

\* DELETE FROM order_items WHERE order_id=?
OtherRows(rows, oid) == SelectSeq(rows, LAMBDA r : r.order_id # oid)

ItemRows(oid, items) ==
    [i \in 1 .. Len(items) |->
        [order_id |-> oid, product_sku |-> items[i].sku,
         quantity |-> items[i].quantity, price |-> items[i].price,
         product_name |-> items[i].product_name]]

RECURSIVE subtotal(_)
\* sum(float(item['price']) * int(item['quantity']) for item in items)
subtotal(items) ==
    IF items = <<>> THEN 0
    ELSE Head(items).price * Head(items).quantity + subtotal(Tail(items))

\* a bug: the rate is added instead of the tax
total_cost_adds_rate(items, gst_rate) == subtotal(items) * RateScale + gst_rate

\* subtotal + (subtotal * gst_rate)
total_cost(items, gst_rate) == subtotal(items) * RateScale + subtotal(items) * gst_rate

----------------------------------------------------------------------------
(* handle_create_order *)

NoId == <<>>
NoError == [kind |-> "none", sku |-> "-"]

RECURSIVE ValidateStockExistenceOnly(_, _)
\* a bug: the validation looks the product up and never compares the quantity
ValidateStockExistenceOnly(prods, items) ==
    IF items = <<>> THEN NoError
    ELSE IF Head(items).sku \notin DOMAIN prods
            THEN [kind |-> "not_found", sku |-> Head(items).sku]
            ELSE ValidateStockExistenceOnly(prods, Tail(items))

RECURSIVE ValidateStock(_, _)
\* "Validate all stock first": every line is checked on its own against the
\* committed quantity; the first line that fails raises.
ValidateStock(prods, items) ==
    IF items = <<>> THEN NoError
    ELSE LET item == Head(items) IN
         IF item.sku \notin DOMAIN prods
            THEN [kind |-> "not_found", sku |-> item.sku]
         ELSE IF prods[item.sku].quantity < item.quantity
            THEN [kind |-> "insufficient", sku |-> item.sku]
         ELSE ValidateStock(prods, Tail(items))

\* a bug: the UPDATE of a missing product inserts a row for its sku
AddQuantityUpsert(prods, sku, n) ==
    IF sku \in DOMAIN prods
       THEN [prods EXCEPT ![sku].quantity = @ + n]
       ELSE (sku :> [quantity |-> n, price |-> 0, name |-> sku]) @@ prods

\* UPDATE products SET quantity = quantity - ? WHERE sku = ?
AddQuantity(prods, sku, n) ==
    IF sku \in DOMAIN prods
       THEN [prods EXCEPT ![sku].quantity = @ + n]
       ELSE prods

\* a bug: the loop over the lines is left after its first line
SubtractStockFirstLine(prods, items) ==
    IF items = <<>> THEN [ok |-> TRUE, products |-> prods]
    ELSE IF Head(items).sku \notin DOMAIN prods
            THEN [ok |-> FALSE, products |-> prods]
            ELSE [ok |-> TRUE,
                  products |-> AddQuantity(prods, Head(items).sku, -Head(items).quantity)]

RECURSIVE SubtractStock(_, _)
\* "Subtract stock (after successful inserts)": one UPDATE per line; a line
\* whose UPDATE touches no row raises.
SubtractStock(prods, items) ==
    IF items = <<>> THEN [ok |-> TRUE, products |-> prods]
    ELSE LET item == Head(items) IN
         IF item.sku \notin DOMAIN prods
            THEN [ok |-> FALSE, products |-> prods]
            ELSE SubtractStock(AddQuantity(prods, item.sku, -item.quantity), Tail(items))

\* conn.rollback(): the committed database is what it was at BEGIN
Rollback(d, work) == d

\* conn.commit(): the work of the transaction becomes the committed database
Commit(d, work) == work

\* float(order_data.get('gstRate', GST_RATE))
CreateRate(intent) == IF intent.gstRate = NoRate THEN GST_RATE ELSE intent.gstRate[1]

\* a bug: the number is taken from the orders that exist
NextNumberFromCount(d) == Cardinality(DOMAIN d.orders) + 1

\* "Allocate order id": new_number = last_number + 1
NextNumber(d) == d.last_number + 1

Reject(d, oid, kind, sku) ==
    [db |-> Rollback(d, d), code |-> 400, order_id |-> oid,
     error |-> [kind |-> kind, sku |-> sku]]

\* handle_create_order from "Allocate order id" to the commit
CreateWrites(d, intent) ==
    LET items == intent.items
        new_number == NextNumber(d)
        new_order_id == FormatId(new_number)
        gst_rate == CreateRate(intent)
        header == [total_cost |-> total_cost(items, gst_rate), gst_rate |-> gst_rate]
        sub == SubtractStock(d.products, items)
        work == [products |-> sub.products,
                 orders |-> [o \in DOMAIN d.orders \cup {new_order_id} |->
                                IF o = new_order_id THEN header ELSE d.orders[o]],
                 order_items |-> d.order_items \o ItemRows(new_order_id, items),
                 last_number |-> new_number]
    IN  IF new_order_id \in DOMAIN d.orders               \* id TEXT PRIMARY KEY
           THEN Reject(d, NoId, "integrity", "-")
        ELSE IF ~sub.ok                                   \* cursor.rowcount == 0
           THEN Reject(d, NoId, "inventory", "-")
        ELSE [db |-> Commit(d, work), code |-> 201, order_id |-> new_order_id,
              error |-> NoError]

handle_create_order(d, intent) ==
    LET check == ValidateStock(d.products, intent.items)
    IN  IF check.kind # "none"
           THEN Reject(d, NoId, check.kind, check.sku)
           ELSE CreateWrites(d, intent)

----------------------------------------------------------------------------
(* update_order *)

RECURSIVE RowQty(_, _)
\* old_items[sku] = old_items.get(sku, 0) + int(qty), over the rows read
RowQty(rows, sku) ==
    IF rows = <<>> THEN 0
    ELSE (IF Head(rows).product_sku = sku THEN Head(rows).quantity ELSE 0)
         + RowQty(Tail(rows), sku)

RECURSIVE ItemQty(_, _)
\* new_map[sku] = new_map.get(sku, 0) + int(it['quantity']), over the intent
ItemQty(items, sku) ==
    IF items = <<>> THEN 0
    ELSE (IF Head(items).sku = sku THEN Head(items).quantity ELSE 0)
         + ItemQty(Tail(items), sku)

\* a bug: old_items[sku] = int(qty), a later row of a sku overwrites the sum
old_items_overwrites(rows) ==
    [s \in {rows[i].product_sku : i \in 1 .. Len(rows)} |->
        rows[CHOOSE i \in 1 .. Len(rows) :
                /\ rows[i].product_sku = s
                /\ \A j \in i + 1 .. Len(rows) : rows[j].product_sku # s].quantity]

\* "Load previous items for this order (existing DB state)"
old_items(rows) ==
    [s \in {rows[i].product_sku : i \in 1 .. Len(rows)} |-> RowQty(rows, s)]

new_map(items) ==
    [s \in {items[i].sku : i \in 1 .. Len(items)} |-> ItemQty(items, s)]

MapGet(m, k) == IF k \in DOMAIN m THEN m[k] ELSE 0

\* a bug: the subtraction the wrong way round
deltasReversed(old, new) ==
    [s \in DOMAIN old \cup DOMAIN new |-> MapGet(old, s) - MapGet(new, s)]

\* deltas[sku] = new_map.get(sku, 0) - old_items.get(sku, 0) over the union
deltas(old, new) ==
    [s \in DOMAIN old \cup DOMAIN new |-> MapGet(new, s) - MapGet(old, s)]

\* a bug: a sku without a product row is skipped instead of raising
DeltaRejectedKnownOnly(prods, dl) ==
    \E s \in DOMAIN dl \cap DOMAIN prods : dl[s] > 0 /\ prods[s].quantity < dl[s]

\* "Validate positive deltas against stock": TRUE when some sku raises
DeltaRejected(prods, dl) ==
    \E s \in DOMAIN dl :
        /\ dl[s] > 0
        /\ \/ s \notin DOMAIN prods
           \/ prods[s].quantity < dl[s]

\* "Apply stock deltas": UPDATE products SET quantity = quantity - delta
ApplyDeltas(prods, dl) ==
    [s \in DOMAIN prods |->
        IF s \in DOMAIN dl /\ dl[s] # 0
           THEN [prods[s] EXCEPT !.quantity = @ - dl[s]]
           ELSE prods[s]]

\* a bug: an update without a rate takes the system default
UpdateRateDefault(d, order_id, intent) ==
    IF intent.gstRate # NoRate THEN intent.gstRate[1] ELSE GST_RATE

\* "If gstRate not in payload, use the existing stored one"
UpdateRate(d, order_id, intent) ==
    IF intent.gstRate # NoRate THEN intent.gstRate[1]
    ELSE IF order_id \in DOMAIN d.orders THEN d.orders[order_id].gst_rate
    ELSE GST_RATE

\* a bug: the order's old items are forgotten, the delta is the new quantity
OrderDeltasFromNewOnly(d, order_id, intent) ==
    deltas(old_items(<<>>), new_map(intent.items))

\* the deltas update_order computes from the rows it reads and the intent
OrderDeltas(d, order_id, intent) ==
    deltas(old_items(SelectRows(d.order_items, order_id)), new_map(intent.items))

\* a bug: the header UPDATE's rowcount is not looked at, the header is upserted
UpdateWritesUpsert(d, order_id, intent, dl) ==
    LET new_items == intent.items
        gst_rate == UpdateRate(d, order_id, intent)
        header == [total_cost |-> total_cost(new_items, gst_rate), gst_rate |-> gst_rate]
        work == [products |-> ApplyDeltas(d.products, dl),
                 orders |-> (order_id :> header) @@ d.orders,
                 order_items |-> OtherRows(d.order_items, order_id)
                                   \o ItemRows(order_id, new_items),
                 last_number |-> d.last_number]
    IN  [db |-> Commit(d, work), code |-> 200, order_id |-> order_id, error |-> NoError]

\* update_order from the tax rate to the commit, with the deltas computed before
UpdateWrites(d, order_id, intent, dl) ==
    LET new_items == intent.items
        gst_rate == UpdateRate(d, order_id, intent)
        header == [total_cost |-> total_cost(new_items, gst_rate), gst_rate |-> gst_rate]
        work == [products |-> ApplyDeltas(d.products, dl),
                 orders |-> [d.orders EXCEPT ![order_id] = header],
                 order_items |-> OtherRows(d.order_items, order_id)
                                   \o ItemRows(order_id, new_items),
                 last_number |-> d.last_number]
    IN  IF order_id \notin DOMAIN d.orders                \* cursor.rowcount == 0
           THEN Reject(d, order_id, "order_not_found", "-")
           ELSE [db |-> Commit(d, work), code |-> 200, order_id |-> order_id,
                 error |-> NoError]

\* which sku the error names depends on the iteration order of a dict built
\* from a set, so the model keeps only that the validation failed
update_order(d, order_id, intent) ==
    LET dl == OrderDeltas(d, order_id, intent)
    IN  IF DeltaRejected(d.products, dl)
           THEN Reject(d, order_id, "validation", "-")
           ELSE UpdateWrites(d, order_id, intent, dl)

----------------------------------------------------------------------------
(* delete_order *)

\* a bug: the rows are deleted and no stock is returned
RestoreStockNothing(prods, rows) == prods

RECURSIVE RestoreStock(_, _)
\* "Return stock for each line": UPDATE products SET quantity = quantity + ?
\* a row whose product is gone updates nothing and the loop goes on
RestoreStock(prods, rows) ==
    IF rows = <<>> THEN prods
    ELSE RestoreStock(AddQuantity(prods, Head(rows).product_sku, Head(rows).quantity),
                      Tail(rows))

\* a bug: the header row is left behind
DeleteHeaderKeeps(ords, order_id) == ords

\* DELETE FROM orders WHERE id=?
DeleteHeader(ords, order_id) == [o \in DOMAIN ords \ {order_id} |-> ords[o]]

delete_order(d, order_id) ==
    LET rows == SelectRows(d.order_items, order_id)
        found == order_id \in DOMAIN d.orders           \* cursor.rowcount of the DELETE
        work == IF rows = <<>>
                   THEN [d EXCEPT !.orders = DeleteHeader(d.orders, order_id)]
                   ELSE [products |-> RestoreStock(d.products, rows),
                         orders |-> DeleteHeader(d.orders, order_id),
                         order_items |-> OtherRows(d.order_items, order_id),
                         last_number |-> d.last_number]
    IN  [db |-> Commit(d, work), code |-> IF found THEN 200 ELSE 404,
         order_id |-> order_id, error |-> NoError]

----------------------------------------------------------------------------
(* update_product, delete_product *)

\* PRAGMA foreign_keys of a handler's connection: only init_db's connection
\* runs "PRAGMA foreign_keys = ON", a connection of sqlite3.connect has it off
foreign_keys == FALSE

\* the value of a product_sku that ON DELETE SET NULL has cleared
NullSku == "NULL"

\* FOREIGN KEY(product_sku) REFERENCES products(sku) ON DELETE SET NULL
SetNull(rows, sku) ==
    [i \in 1 .. Len(rows) |->
        IF rows[i].product_sku = sku THEN [rows[i] EXCEPT !.product_sku = NullSku]
        ELSE rows[i]]

\* the bodies a client sends to PUT /api/products/<sku>: the listed or a new
\* name, the listed or a new price, a quantity of none or of a full stock
ProductEdits(sku) ==
    [name : {ListName[sku], "renamed"},
     price : {ListPrice[sku], ListPrice[sku] + 1},
     quantity : {0, InitStock}]

\* a bug: the new name and price are written to the order_items rows too
update_product_cascades(d, sku, product) ==
    IF sku \notin DOMAIN d.products
       THEN [db |-> d, code |-> 404]
       ELSE [db |-> [d EXCEPT !.products[sku] = product,
                              !.order_items =
                                 [i \in 1 .. Len(d.order_items) |->
                                     IF d.order_items[i].product_sku = sku
                                        THEN [d.order_items[i] EXCEPT
                                                !.price = product.price,
                                                !.product_name = product.name]
                                        ELSE d.order_items[i]]],
             code |-> 200]

\* PUT /api/products/<sku>: UPDATE products SET name, quantity, price
update_product(d, sku, product) ==
    IF sku \notin DOMAIN d.products                       \* cursor.rowcount == 0
       THEN [db |-> d, code |-> 404]
       ELSE [db |-> [d EXCEPT !.products[sku] = product], code |-> 200]

\* DELETE /api/products/<sku>: DELETE FROM products WHERE sku=?
delete_product(d, sku) ==
    IF sku \notin DOMAIN d.products                       \* cursor.rowcount == 0
       THEN [db |-> d, code |-> 404]
       ELSE [db |-> [d EXCEPT
                       !.products = [s \in DOMAIN d.products \ {sku} |-> d.products[s]],
                       !.order_items = IF foreign_keys THEN SetNull(@, sku) ELSE @],
             code |-> 200]

----------------------------------------------------------------------------
(* get_order *)

NoOrder == [code |-> 404, id |-> NoId, totalCost |-> 0, gstRate |-> 0, items |-> <<>>]

\* the items of the response: sku, product_name, int(qty), float(price) per row
GetItems(rows) ==
    [i \in 1 .. Len(rows) |->
        [sku |-> rows[i].product_sku, product_name |-> rows[i].product_name,
         quantity |-> rows[i].quantity, price |-> rows[i].price]]

\* a bug: the items SELECT has no WHERE order_id=?
get_order_all_items(d, order_id) ==
    IF order_id \notin DOMAIN d.orders THEN NoOrder
    ELSE [code |-> 200, id |-> order_id,
          totalCost |-> d.orders[order_id].total_cost,
          gstRate |-> d.orders[order_id].gst_rate,
          items |-> GetItems(d.order_items)]

\* what get_order holds after its first SELECT found the header row
Header(d, order_id) ==
    [code |-> 200, id |-> order_id,
     totalCost |-> d.orders[order_id].total_cost,
     gstRate |-> d.orders[order_id].gst_rate,
     items |-> <<>>]

\* GET /api/orders/<order_id>: the header row, then the order's item rows
get_order(d, order_id) ==
    IF order_id \notin DOMAIN d.orders THEN NoOrder
    ELSE [Header(d, order_id) EXCEPT
            !.items = GetItems(SelectRows(d.order_items, order_id))]

----------------------------------------------------------------------------
(* The engine under one caller at a time *)

NoIntent == [items |-> <<>>, gstRate |-> NoRate]
NoSku == "-"
NoDB == [products |-> <<>>, orders |-> <<>>, order_items |-> <<>>, last_number |-> 0]

\* The caller's view.  While a response is held: the request (op, order_id,
\* intent), the database the handler's transaction began in (before) and the
\* response (code, result_id, error); sku is the product of a catalog request.
\* repeat_of is the order id of a successful
\* deleteOrder while the caller's next request has not been handled.
Idle(repeat_of) ==
    [status |-> "idle", op |-> "none", order_id |-> NoId, sku |-> NoSku,
     intent |-> NoIntent, repeat_of |-> repeat_of, before |-> NoDB,
     code |-> 0, result_id |-> NoId, error |-> NoError]

\* Request threads (main.py runs the server with threaded=True)
Procs == {"t1", "t2"}
NoProc == "none"

\* dl: the deltas an update computed; seen: the quantities the validation read;
\* got: what a get_order has read so far; ended: how the handler's transaction
\* ended, by conn.commit() or by conn.rollback()
Thread(pc, op, oid, intent) ==
    [pc |-> pc, op |-> op, order_id |-> oid, intent |-> intent,
     dl |-> << >>, seen |-> << >>, got |-> NoOrder, ended |-> "none",
     code |-> 0, result_id |-> NoId, error |-> NoError]

InitProducts ==
    [s \in Catalog |-> [quantity |-> InitStock, price |-> ListPrice[s], name |-> ListName[s]]]

Init ==
    /\ products = InitProducts
    /\ orders = << >>
    /\ order_items = << >>
    /\ last_number = 0
    /\ call = Idle(NoId)
    /\ proc = [p \in Procs |-> Thread("idle", "none", NoId, NoIntent)]
    /\ write_lock = NoProc
    /\ issued = << >>

\* one request handled in one transaction (BEGIN IMMEDIATE ... commit or
\* rollback) and answered
Respond(op, oid, intent, r) ==
    /\ products' = r.db.products
    /\ orders' = r.db.orders
    /\ order_items' = r.db.order_items
    /\ last_number' = r.db.last_number
    /\ call' = [status |-> "done", op |-> op, order_id |-> oid, sku |-> NoSku,
                intent |-> intent, repeat_of |-> call.repeat_of, before |-> DB,
                code |-> r.code, result_id |-> r.order_id, error |-> r.error]
    /\ UNCHANGED conc_vars

\* POST /api/orders
createOrder ==
    /\ call.status = "idle"
    /\ last_number < MaxOrders
    /\ \E intent \in Intents :
          \E r \in {handle_create_order(DB, intent)} : Respond("create", NoId, intent, r)

\* PUT /api/orders/<order_id>
updateOrder ==
    /\ call.status = "idle"
    /\ \E oid \in OrderIds, intent \in Intents :
        \E r \in {update_order(DB, oid, intent)} : Respond("update", oid, intent, r)

\* DELETE /api/orders/<order_id>
deleteOrder ==
    /\ call.status = "idle"
    /\ \E oid \in OrderIds :
        \E r \in {delete_order(DB, oid)} : Respond("delete", oid, NoIntent, r)

\* the caller has read the response
Return ==
    /\ call.status = "done"
    /\ call' = Idle(IF call.op = "delete" /\ call.code = 200 THEN call.order_id ELSE NoId)
    /\ UNCHANGED <<db_vars, conc_vars>>

Next ==
    \/ createOrder
    \/ updateOrder
    \/ deleteOrder
    \/ Return

Spec == Init /\ [][Next]_vars


----------------------------------------------------------------------------
(* The engine and the product catalog under one caller at a time *)

\* the intents of the catalog's caller: lines of catalog products with a
\* positive quantity, no rate
CatalogIntents ==
    {intent \in Intents :
        /\ intent.gstRate = NoRate
        /\ intent.items # <<>>
        /\ \A i \in 1 .. Len(intent.items) :
              intent.items[i].sku \in Catalog /\ intent.items[i].quantity > 0}

RespondCatalog(op, sku, r) ==
    /\ products' = r.db.products
    /\ orders' = r.db.orders
    /\ order_items' = r.db.order_items
    /\ last_number' = r.db.last_number
    /\ call' = [status |-> "done", op |-> op, order_id |-> NoId, sku |-> sku,
                intent |-> NoIntent, repeat_of |-> call.repeat_of, before |-> DB,
                code |-> r.code, result_id |-> NoId, error |-> NoError]
    /\ UNCHANGED conc_vars

\* POST /api/orders
createCatalogOrder ==
    /\ call.status = "idle"
    /\ last_number < MaxOrders
    /\ \E intent \in CatalogIntents :
          \E r \in {handle_create_order(DB, intent)} : Respond("create", NoId, intent, r)

\* PUT /api/orders/<order_id>
updateCatalogOrder ==
    /\ call.status = "idle"
    /\ \E oid \in OrderIds, intent \in CatalogIntents :
        \E r \in {update_order(DB, oid, intent)} : Respond("update", oid, intent, r)

\* PUT /api/products/<sku>
updateProduct ==
    /\ call.status = "idle"
    /\ \E sku \in Skus :
        \E product \in ProductEdits(sku) :
           \E r \in {update_product(DB, sku, product)} :
              RespondCatalog("update_product", sku, r)

\* DELETE /api/products/<sku>
deleteProduct ==
    /\ call.status = "idle"
    /\ \E sku \in Skus :
        \E r \in {delete_product(DB, sku)} : RespondCatalog("delete_product", sku, r)

NextCatalog ==
    \/ createCatalogOrder
    \/ updateCatalogOrder
    \/ deleteOrder
    \/ updateProduct
    \/ deleteProduct
    \/ Return

SpecCatalog == Init /\ [][NextCatalog]_vars

----------------------------------------------------------------------------
(* The engine under concurrent requests.  Every handler opens its own        *)
(* connection and starts with BEGIN IMMEDIATE, which takes SQLite's write    *)
(* lock or, when another connection holds it until the busy timeout, raises  *)
(* "database is locked".  A handler is stepped at its statements: the reads  *)
(* it validates with, then its writes and the commit.                        *)

\* the requests the threads send
ConcIntents == {i \in Intents : Len(i.items) = 1 /\ i.gstRate = NoRate}

ConcRequests ==
    {[op |-> "create", order_id |-> NoId, intent |-> i] : i \in ConcIntents}
    \cup {[op |-> "update", order_id |-> o, intent |-> i] : o \in OrderIds, i \in ConcIntents}
    \cup {[op |-> "delete", order_id |-> o, intent |-> NoIntent] : o \in OrderIds}

\* a bug: a plain BEGIN, which takes no lock
CanBeginDeferred(lock, p) == TRUE

\* cursor.execute("BEGIN IMMEDIATE") succeeds
CanBeginImmediate(lock, p) == lock = NoProc

\* a bug: a path ends without commit, rollback or close
ReleaseLockLeaks(lock, p) == lock

\* conn.commit() or conn.rollback() ends the transaction and frees the lock
ReleaseLock(lock, p) == IF lock = p THEN NoProc ELSE lock

\* 400 is answered by the except branch, after conn.rollback(); every other
\* answer is given after conn.commit()
Finish(p, r) ==
    /\ products' = r.db.products
    /\ orders' = r.db.orders
    /\ order_items' = r.db.order_items
    /\ last_number' = r.db.last_number
    /\ proc' = [proc EXCEPT ![p].pc = "done", ![p].code = r.code,
                            ![p].result_id = r.order_id, ![p].error = r.error,
                            ![p].ended = IF r.code = 400 THEN "rollback" ELSE "commit"]
    /\ write_lock' = ReleaseLock(write_lock, p)
    /\ issued' = IF proc[p].op = "create" /\ r.code = 201
                    THEN Append(issued, r.order_id) ELSE issued

\* a request of requests arrives and its handler gets the write lock
BeginWith(p, requests) ==
    /\ proc[p].pc = "idle"
    /\ CanBeginImmediate(write_lock, p)
    /\ \E q \in requests :
          /\ q.op = "create" => last_number < MaxOrders
          /\ proc' = [proc EXCEPT ![p] = Thread("begun", q.op, q.order_id, q.intent)]
    /\ write_lock' = p
    /\ UNCHANGED <<db_vars, call, issued>>

\* a request of requests arrives and BEGIN IMMEDIATE times out: except,
\* rollback, 400
BeginBusyWith(p, requests) ==
    /\ proc[p].pc = "idle"
    /\ ~CanBeginImmediate(write_lock, p)
    /\ \E q \in requests :
          proc' = [proc EXCEPT ![p] =
                      [Thread("done", q.op, q.order_id, q.intent) EXCEPT
                          !.code = 400, !.error = [kind |-> "locked", sku |-> "-"],
                          !.ended = "rollback"]]
    /\ UNCHANGED <<db_vars, call, write_lock, issued>>

Begin(p) == BeginWith(p, ConcRequests)

BeginBusy(p) == BeginBusyWith(p, ConcRequests)

\* the quantities ValidateStock reads for an intent
SeenByCreate(prods, items) ==
    [s \in {items[i].sku : i \in 1 .. Len(items)} \cap DOMAIN prods |-> prods[s].quantity]

\* the quantities the validation of positive deltas reads
SeenByUpdate(prods, dl) ==
    [s \in {k \in DOMAIN dl : dl[k] > 0} \cap DOMAIN prods |-> prods[s].quantity]

\* handle_create_order, "Validate all stock first"
ValidateCreate(p) ==
    /\ proc[p].pc = "begun" /\ proc[p].op = "create"
    /\ \E check \in {ValidateStock(products, proc[p].intent.items)} :
          IF check.kind # "none"
             THEN Finish(p, Reject(DB, NoId, check.kind, check.sku))
             ELSE /\ proc' = [proc EXCEPT ![p].pc = "validated",
                                 ![p].seen = SeenByCreate(products, proc[p].intent.items)]
                  /\ UNCHANGED <<db_vars, write_lock, issued>>
    /\ UNCHANGED call

\* update_order, from "Load previous items" to "Validate positive deltas"
ValidateUpdate(p) ==
    /\ proc[p].pc = "begun" /\ proc[p].op = "update"
    /\ \E dl \in {OrderDeltas(DB, proc[p].order_id, proc[p].intent)} :
          IF DeltaRejected(products, dl)
             THEN Finish(p, Reject(DB, proc[p].order_id, "validation", "-"))
             ELSE /\ proc' = [proc EXCEPT ![p].pc = "validated", ![p].dl = dl,
                                 ![p].seen = SeenByUpdate(products, dl)]
                  /\ UNCHANGED <<db_vars, write_lock, issued>>
    /\ UNCHANGED call

\* handle_create_order, from "Allocate order id" to the commit
WriteCreate(p) ==
    /\ proc[p].pc = "validated" /\ proc[p].op = "create"
    /\ \E r \in {CreateWrites(DB, proc[p].intent)} : Finish(p, r)
    /\ UNCHANGED call

\* update_order, from the tax rate to the commit
WriteUpdate(p) ==
    /\ proc[p].pc = "validated" /\ proc[p].op = "update"
    /\ \E r \in {UpdateWrites(DB, proc[p].order_id, proc[p].intent, proc[p].dl)} :
          Finish(p, r)
    /\ UNCHANGED call

\* delete_order after BEGIN IMMEDIATE
RunDelete(p) ==
    /\ proc[p].pc = "begun" /\ proc[p].op = "delete"
    /\ \E r \in {delete_order(DB, proc[p].order_id)} : Finish(p, r)
    /\ UNCHANGED call

\* the response is sent and the thread serves another request
Done(p) ==
    /\ proc[p].pc = "done"
    /\ proc' = [proc EXCEPT ![p] = Thread("idle", "none", NoId, NoIntent)]
    /\ UNCHANGED <<db_vars, call, write_lock, issued>>

NextConc ==
    \/ \E p \in Procs : Begin(p)
    \/ \E p \in Procs : BeginBusy(p)
    \/ \E p \in Procs : ValidateCreate(p)
    \/ \E p \in Procs : ValidateUpdate(p)
    \/ \E p \in Procs : WriteCreate(p)
    \/ \E p \in Procs : WriteUpdate(p)
    \/ \E p \in Procs : RunDelete(p)
    \/ \E p \in Procs : Done(p)

SpecConc == Init /\ [][NextConc]_vars

----------------------------------------------------------------------------
(* The writers with a failing payload, each running on once it has begun *)

\* the payload lacks a field the handler reads (order_data['customerName']
\* raises KeyError after BEGIN IMMEDIATE): except, rollback, 400
RaiseUnexpected(p) ==
    /\ proc[p].pc = "begun" /\ proc[p].op \in {"create", "update"}
    /\ Finish(p, Reject(DB, proc[p].order_id, "exception", "-"))
    /\ UNCHANGED call

\* the steps of a handler between its BEGIN IMMEDIATE and its response
HandlerStep(p) ==
    \/ ValidateCreate(p)
    \/ ValidateUpdate(p)
    \/ WriteCreate(p)
    \/ WriteUpdate(p)
    \/ RunDelete(p)
    \/ RaiseUnexpected(p)

\* the requests of the threads that run on: one line of the full quantity of
\* product A or of the unknown sku
LiveRequests ==
    {q \in ConcRequests :
        q.op # "delete" =>
            /\ q.intent.items[1].sku \in {"A", "X"}
            /\ q.intent.items[1].quantity = MaxQty}

BeginLive(p) == BeginWith(p, LiveRequests)

BeginBusyLive(p) == BeginBusyWith(p, LiveRequests)

NextLive ==
    \/ \E p \in Procs : BeginLive(p)
    \/ \E p \in Procs : BeginBusyLive(p)
    \/ \E p \in Procs : HandlerStep(p)
    \/ \E p \in Procs : Done(p)

\* a handler makes no blocking call after BEGIN IMMEDIATE, so a thread that
\* has begun keeps running to its response
SpecLive == Init /\ [][NextLive]_vars /\ \A p \in Procs : WF_vars(HandlerStep(p))

----------------------------------------------------------------------------
(* get_order beside the writers: two SELECTs on a connection in autocommit,
   each reading the database as committed when it runs *)

\* the first SELECT: the header row, or 404
ReadHeader(p) ==
    /\ proc[p].pc = "idle"
    /\ \E oid \in OrderIds :
          proc' = [proc EXCEPT ![p] =
                      IF oid \notin DOMAIN orders
                         THEN [Thread("done", "get", oid, NoIntent) EXCEPT !.code = 404]
                         ELSE [Thread("header_read", "get", oid, NoIntent) EXCEPT
                                 !.got = Header(DB, oid)]]
    /\ UNCHANGED <<db_vars, call, write_lock, issued>>

\* the second SELECT: the order's item rows, and the response
ReadItems(p) ==
    /\ proc[p].pc = "header_read"
    /\ proc' = [proc EXCEPT
                  ![p].pc = "done", ![p].code = 200,
                  ![p].got.items = GetItems(SelectRows(order_items, proc[p].order_id))]
    /\ UNCHANGED <<db_vars, call, write_lock, issued>>

NextGet ==
    \/ NextConc
    \/ \E p \in Procs : ReadHeader(p)
    \/ \E p \in Procs : ReadItems(p)

SpecGet == Init /\ [][NextGet]_vars

----------------------------------------------------------------------------
(* What a claim observes of a handled call *)

Handled(op) == call.status = "done" /\ call.op = op

RECURSIVE LineTotal(_, _)
\* the quantity an intent's lines request of one sku
LineTotal(items, sku) ==
    IF Len(items) = 0 THEN 0
    ELSE LineTotal(SubSeq(items, 1, Len(items) - 1), sku)
         + (IF items[Len(items)].sku = sku THEN items[Len(items)].quantity ELSE 0)

RECURSIVE Reserved(_, _, _)
\* the quantity of one sku on the order_items rows of the orders in ids
Reserved(rows, ids, sku) ==
    IF Len(rows) = 0 THEN 0
    ELSE Reserved(SubSeq(rows, 1, Len(rows) - 1), ids, sku)
         + (IF rows[Len(rows)].order_id \in ids /\ rows[Len(rows)].product_sku = sku
               THEN rows[Len(rows)].quantity ELSE 0)

\* the committed database is the one the call began in
Untouched == DB = call.before

\* C1: in every state reached by createOrder, updateOrder and deleteOrder calls
\* from non-negative stock, every product's quantity is >= 0.
C1_QuantityNeverNegative ==
    \A s \in DOMAIN products : products[s].quantity >= 0

\* a line of the intent names an unknown sku or asks for more than is in stock
CreateMustFail(prods, items) ==
    \E i \in 1 .. Len(items) :
        \/ items[i].sku \notin DOMAIN prods
        \/ items[i].quantity > prods[items[i].sku].quantity

\* C2: a createOrder whose intent has a line with an unknown sku, or a line asking
\* for more than the product's current quantity, fails and leaves the committed
\* state as it was: no product, Order row, OrderItem row (or counter) changes.
C2_RejectedCreateChangesNothing ==
    (Handled("create") /\ CreateMustFail(call.before.products, call.intent.items))
        => (call.code = 400 /\ call.result_id = NoId /\ Untouched)

C2_Witness ==
    /\ Handled("create") /\ call.code = 400
    /\ call.before.last_number = 1
    /\ \E i \in 1 .. Len(call.intent.items) :
          /\ call.intent.items[i].sku \in DOMAIN call.before.products
          /\ call.intent.items[i].quantity
                > call.before.products[call.intent.items[i].sku].quantity

\* C3: after a successful createOrder every product's quantity is its quantity
\* before minus the sum of the intent's lines for that sku, and a product the
\* intent does not name is unchanged.
C3_CreateSubtractsLineSums ==
    (Handled("create") /\ call.code = 201)
        => /\ DOMAIN products = DOMAIN call.before.products
           /\ \A s \in DOMAIN products :
                 products[s] = [call.before.products[s] EXCEPT
                                   !.quantity = @ - LineTotal(call.intent.items, s)]

C3_Witness ==
    /\ Handled("create") /\ call.code = 201
    /\ Len(call.intent.items) = 2
    /\ call.intent.items[1].sku = call.intent.items[2].sku
    /\ call.intent.items[1].quantity > 0 /\ call.intent.items[2].quantity > 0

\* the delta of one sku in an update: new per-sku sum minus old per-sku sum
DeltaOf(rows, oid, items, sku) == LineTotal(items, sku) - Reserved(rows, {oid}, sku)

\* C4: after a successful updateOrder every product's quantity has changed by
\* exactly -(newQty - oldQty), the per-sku sums of the new intent and of the
\* order's old items; zero deltas and products outside both change nothing.
C4_UpdateAppliesDeltas ==
    (Handled("update") /\ call.code = 200)
        => /\ DOMAIN products = DOMAIN call.before.products
           /\ \A s \in DOMAIN products :
                 products[s] = [call.before.products[s] EXCEPT
                                   !.quantity = @ - DeltaOf(call.before.order_items,
                                                            call.order_id, call.intent.items, s)]

C4_Witness ==
    /\ Handled("update") /\ call.code = 200
    /\ DeltaOf(call.before.order_items, call.order_id, call.intent.items, "A") > 0
    /\ DeltaOf(call.before.order_items, call.order_id, call.intent.items, "B") < 0

\* some sku's positive delta exceeds the stock, or its product is unknown
UpdateMustFail(d, oid, items) ==
    \E s \in Skus :
        /\ DeltaOf(d.order_items, oid, items, s) > 0
        /\ \/ s \notin DOMAIN d.products
           \/ DeltaOf(d.order_items, oid, items, s) > d.products[s].quantity

\* C5: an updateOrder in which some sku's positive delta exceeds the product's
\* quantity, or names an unknown product, is rejected as a whole: header, items
\* and every product quantity are as before the call.
C5_RejectedUpdateChangesNothing ==
    (Handled("update") /\ UpdateMustFail(call.before, call.order_id, call.intent.items))
        => (call.code = 400 /\ Untouched)

C5_Witness ==
    /\ Handled("update") /\ call.code = 400
    /\ call.order_id \in DOMAIN call.before.orders
    /\ UpdateMustFail(call.before, call.order_id, call.intent.items)
    /\ \E s \in Skus :
          DeltaOf(call.before.order_items, call.order_id, call.intent.items, s) < 0

\* C6: for every product, its quantity plus the quantity of its sku on the
\* OrderItem rows of all existing orders is its initial quantity.
C6_StockConserved ==
    \A s \in DOMAIN products :
        products[s].quantity + Reserved(order_items, DOMAIN orders, s)
            = InitProducts[s].quantity

C6_Witness ==
    /\ Handled("delete") /\ call.code = 200
    /\ Cardinality(DOMAIN orders) = 1
    /\ \E s \in DOMAIN products : Reserved(order_items, DOMAIN orders, s) = 2
    /\ \E s \in DOMAIN products :
          Reserved(call.before.order_items, {call.order_id}, s) > 0

\* C7: under any interleaving of concurrent createOrder calls with rejected
\* creates and deleteOrder calls, the order ids returned are pairwise distinct,
\* also after the order holding an id has been deleted.
C7_IssuedIdsDistinct ==
    \A i, j \in 1 .. Len(issued) : i # j => issued[i] # issued[j]

C7_Witness ==
    /\ Len(issued) = 2
    /\ issued[1] \notin DOMAIN orders
    /\ \E p \in Procs :
          proc[p].pc = "done" /\ proc[p].op = "create" /\ proc[p].code = 400

\* C8: a createOrder or updateOrder holds the write lock from before its first
\* read of a product quantity until its commit, so between its availability
\* check and its stock mutation every quantity it validated against is still
\* the committed one (no other write to stock has committed in between).
C8_LockBeforeRead ==
    \A p \in Procs :
        (proc[p].op \in {"create", "update"} /\ proc[p].pc \in {"begun", "validated"})
            => /\ write_lock = p
               /\ \A s \in DOMAIN proc[p].seen :
                     s \in DOMAIN products /\ products[s].quantity = proc[p].seen[s]

C8_Witness ==
    \E p, q \in Procs :
        /\ proc[p].pc = "validated" /\ proc[p].op = "create"
        /\ proc[p].seen # << >>
        /\ proc[q].pc = "done" /\ proc[q].error.kind = "locked"
        /\ proc[q].op = "update"

\* C9: deleteOrder on an existing order succeeds and adds the order's reserved
\* stock back; the same deleteOrder called again right after reports not-found
\* and changes no product quantity.
C9_DeleteTwice ==
    /\ (Handled("delete") /\ call.order_id \in DOMAIN call.before.orders)
          => /\ call.code = 200
             /\ DOMAIN products = DOMAIN call.before.products
             /\ \A s \in DOMAIN products :
                   products[s] = [call.before.products[s] EXCEPT
                                     !.quantity = @ + Reserved(call.before.order_items,
                                                               {call.order_id}, s)]
    /\ (Handled("delete") /\ call.repeat_of = call.order_id)
          => (call.code = 404 /\ products = call.before.products)

C9_Witness ==
    /\ Handled("delete") /\ call.repeat_of = call.order_id /\ call.code = 404
    /\ \E s \in DOMAIN products :
          Reserved(order_items, DOMAIN orders, s) > 0

RECURSIVE StoredSubtotal(_, _)
\* sum of unitPrice x quantity over the stored rows of one order
StoredSubtotal(rows, oid) ==
    IF Len(rows) = 0 THEN 0
    ELSE StoredSubtotal(SubSeq(rows, 1, Len(rows) - 1), oid)
         + (IF rows[Len(rows)].order_id = oid
               THEN rows[Len(rows)].price * rows[Len(rows)].quantity ELSE 0)

\* C10: every existing order's stored totalCost is subtotal x (1 + stored
\* taxRate), the subtotal taken over the order's currently stored rows.
C10_TotalMatchesItems ==
    \A o \in DOMAIN orders :
        orders[o].total_cost
            = StoredSubtotal(order_items, o) * (RateScale + orders[o].gst_rate)

C10_Witness ==
    /\ Handled("update") /\ call.code = 200
    /\ call.intent.gstRate = NoRate
    /\ orders[call.order_id].gst_rate # GST_RATE
    /\ StoredSubtotal(order_items, call.order_id) > 0
    /\ StoredSubtotal(order_items, call.order_id)
          # StoredSubtotal(call.before.order_items, call.order_id)

\* C11: the stored tax rate is sticky.  A successful updateOrder whose intent
\* has no rate leaves the order's stored rate as it was and stores a totalCost
\* computed from the new items with that rate; and a call changes the stored
\* rate of an order only if it is a successful updateOrder of that order whose
\* intent supplies a rate.
C11_RateSticky ==
    /\ (Handled("update") /\ call.code = 200 /\ call.intent.gstRate = NoRate)
           => /\ orders[call.order_id].gst_rate = call.before.orders[call.order_id].gst_rate
              /\ orders[call.order_id].total_cost
                    = StoredSubtotal(order_items, call.order_id)
                        * (RateScale + call.before.orders[call.order_id].gst_rate)
    /\ call.status = "done"
           => \A o \in DOMAIN orders \cap DOMAIN call.before.orders :
                 orders[o].gst_rate # call.before.orders[o].gst_rate
                    => /\ call.op = "update" /\ call.code = 200
                       /\ call.order_id = o
                       /\ call.intent.gstRate # NoRate

\* an order stored with a rate other than the default was updated without a
\* rate to items of a positive subtotal
C11_Witness ==
    /\ Handled("update") /\ call.code = 200 /\ call.intent.gstRate = NoRate
    /\ call.before.orders[call.order_id].gst_rate # GST_RATE
    /\ StoredSubtotal(order_items, call.order_id) > 0
    /\ StoredSubtotal(order_items, call.order_id)
          # StoredSubtotal(call.before.order_items, call.order_id)

\* C12: an updateOrder or a deleteOrder of an id that has no order row fails
\* (400 for the update, 404 for the delete) and changes nothing: products,
\* orders, order_items and the sequence counter are as the call found them.
C12_MissingOrderNoEffect ==
    /\ (Handled("update") /\ call.order_id \notin DOMAIN call.before.orders)
           => call.code = 400 /\ Untouched
    /\ (Handled("delete") /\ call.order_id \notin DOMAIN call.before.orders)
           => call.code = 404 /\ Untouched

\* an update that passes the stock validation was made to an id whose order
\* was deleted, while another order exists
C12_Witness ==
    /\ Handled("update") /\ call.order_id \notin DOMAIN call.before.orders
    /\ call.error.kind = "order_not_found"
    /\ subtotal(call.intent.items) > 0
    /\ call.before.orders # <<>>

\* C13: every stored order_items row has a quantity > 0.
C13_ItemQuantityPositive ==
    \A i \in 1 .. Len(order_items) : order_items[i].quantity > 0
\* C18: updateOrder checks availability for positive deltas only.  An update of
\* an existing order in which every sku's delta is <= 0 succeeds whatever the
\* products' quantities; and an update succeeds whenever every positive delta
\* is of an existing product and within its quantity, also when the full new
\* quantity is not.
C18_PositiveDeltasOnly ==
    /\ (/\ Handled("update") /\ call.order_id \in DOMAIN call.before.orders
        /\ \A s \in Skus :
              DeltaOf(call.before.order_items, call.order_id, call.intent.items, s) <= 0)
           => call.code = 200
    /\ (/\ Handled("update") /\ call.order_id \in DOMAIN call.before.orders
        /\ ~UpdateMustFail(call.before, call.order_id, call.intent.items))
           => call.code = 200

\* a successful update that lowers A while A's quantity was 0 and raises B to
\* a new quantity above B's stock, the increase being within it
C18_Witness ==
    /\ Handled("update") /\ call.code = 200
    /\ call.before.products["A"].quantity = 0
    /\ DeltaOf(call.before.order_items, call.order_id, call.intent.items, "A") < 0
    /\ DeltaOf(call.before.order_items, call.order_id, call.intent.items, "B") > 0
    /\ LineTotal(call.intent.items, "B") > call.before.products["B"].quantity

\* C19: the sequence counter never decreases.  A successful createOrder leaves
\* it one above the value it found and returns the id of the new value; every
\* other call (update, delete, rejected create) leaves it as it was; and every
\* order's id is the id of a number from 1 to the counter.
C19_CounterMonotonic ==
    /\ (Handled("create") /\ call.code = 201)
           => /\ last_number = call.before.last_number + 1
              /\ call.result_id = FormatId(last_number)
    /\ (call.status = "done" /\ ~(call.op = "create" /\ call.code = 201))
           => last_number = call.before.last_number
    /\ \A o \in DOMAIN orders : \E n \in 1 .. last_number : o = FormatId(n)

\* an order was created after the only order had been deleted
C19_Witness ==
    /\ Handled("create") /\ call.code = 201
    /\ DOMAIN call.before.orders = {}
    /\ call.before.last_number = 1
    /\ DOMAIN orders = {FormatId(2)}

\* C20: every order_items row belongs to an existing order, so a deleteOrder
\* that answers not-found has returned no stock and changed nothing.
C20_NoOrphans ==
    /\ \A i \in 1 .. Len(order_items) : order_items[i].order_id \in DOMAIN orders
    /\ (Handled("delete") /\ call.code = 404) => Untouched

\* an order of two rows was deleted while the other order keeps its rows
C20_Witness ==
    /\ Handled("delete") /\ call.code = 200
    /\ Len(SelectRows(call.before.order_items, call.order_id)) = 2
    /\ SelectRows(order_items, call.order_id) = <<>>
    /\ Len(order_items) > 0
\* C16: round trip.  get_order of the id a successful createOrder returned
\* answers exactly the intent's lines (sku, name, quantity, unit price, in the
\* intent's order), the rate the create used (the intent's, else the default)
\* and totalCost = subtotal x (1 + rate); and any call that is not a successful
\* update or delete of an order leaves what get_order answers for it unchanged.
C16_RoundTrip ==
    /\ (Handled("create") /\ call.code = 201)
           => LET got == get_order(DB, call.result_id)
                  rate == IF call.intent.gstRate = NoRate THEN GST_RATE
                          ELSE call.intent.gstRate[1]
              IN  /\ got.code = 200
                  /\ got.id = call.result_id
                  /\ got.items = call.intent.items
                  /\ got.gstRate = rate
                  /\ got.totalCost = subtotal(call.intent.items) * (RateScale + rate)
    /\ call.status = "done"
           => \A o \in DOMAIN call.before.orders :
                 ~(call.op \in {"update", "delete"} /\ call.order_id = o /\ call.code = 200)
                    => get_order(DB, o) = get_order(call.before, o)

\* a second order of two lines of different skus was created with its own rate
\* while the first order has rows
C16_Witness ==
    /\ Handled("create") /\ call.code = 201
    /\ call.intent.gstRate # NoRate
    /\ Len(call.intent.items) = 2
    /\ call.intent.items[1].sku # call.intent.items[2].sku
    /\ subtotal(call.intent.items) > 0
    /\ call.before.order_items # <<>>
    /\ get_order(DB, call.result_id).code = 200
\* C14: a deleteOrder of an existing order one of whose rows names a product
\* that is no longer in the catalog succeeds: the header and all rows of the
\* order are gone, every product still in the catalog has got back what the
\* order's rows held of it, and the catalog has the same skus as before.
C14_DeleteWithVanishedProduct ==
    (/\ Handled("delete") /\ call.order_id \in DOMAIN call.before.orders
     /\ \E i \in 1 .. Len(call.before.order_items) :
           /\ call.before.order_items[i].order_id = call.order_id
           /\ call.before.order_items[i].product_sku \notin DOMAIN call.before.products)
       => /\ call.code = 200
          /\ call.order_id \notin DOMAIN orders
          /\ SelectRows(order_items, call.order_id) = <<>>
          /\ OtherRows(order_items, call.order_id)
                = OtherRows(call.before.order_items, call.order_id)
          /\ DOMAIN products = DOMAIN call.before.products
          /\ \A s \in DOMAIN products :
                products[s] = [call.before.products[s] EXCEPT !.quantity =
                                  @ + Reserved(call.before.order_items, {call.order_id}, s)]

\* the deleted order had a row of a vanished product and a row of a product
\* that is still in the catalog
C14_Witness ==
    /\ Handled("delete") /\ call.code = 200
    /\ \E i, j \in 1 .. Len(call.before.order_items) :
          /\ call.before.order_items[i].order_id = call.order_id
          /\ call.before.order_items[j].order_id = call.order_id
          /\ call.before.order_items[i].product_sku \notin DOMAIN call.before.products
          /\ call.before.order_items[j].product_sku \in DOMAIN products
          /\ call.before.order_items[j].quantity > 0

\* C15: after a product is deleted from the catalog every order_items row is
\* still there with its order, product_name, price and quantity, and the rows
\* that named the product have a null product_sku.
C15_DeletedProductNullsReference ==
    (Handled("delete_product") /\ call.code = 200)
       => /\ Len(order_items) = Len(call.before.order_items)
          /\ \A i \in 1 .. Len(order_items) :
                order_items[i] =
                   IF call.before.order_items[i].product_sku = call.sku
                      THEN [call.before.order_items[i] EXCEPT !.product_sku = NullSku]
                      ELSE call.before.order_items[i]

\* C17: a change of a product's name or price in the catalog leaves every
\* order_items row (price, product_name) and every order (total_cost) as it was.
C17_CatalogEditKeepsSnapshots ==
    Handled("update_product")
       => /\ order_items = call.before.order_items
          /\ orders = call.before.orders

\* the product of a stored row was given another price and another name
C17_Witness ==
    /\ Handled("update_product") /\ call.code = 200
    /\ products[call.sku].price # call.before.products[call.sku].price
    /\ products[call.sku].name # call.before.products[call.sku].name
    /\ \E i \in 1 .. Len(order_items) :
          /\ order_items[i].product_sku = call.sku
          /\ order_items[i].price # products[call.sku].price
          /\ order_items[i].product_name # products[call.sku].name
          /\ orders[order_items[i].order_id].total_cost > 0
\* C22: updateOrder is idempotent.  In the database a successful updateOrder
\* committed, the same intent applied to the same order again has every delta
\* zero, succeeds and commits the database it found: every product quantity,
\* the order's rows and its total_cost are as the first application left them.
C22_UpdateIdempotent ==
    (Handled("update") /\ call.code = 200)
       => LET again == update_order(DB, call.order_id, call.intent)
              dl == OrderDeltas(DB, call.order_id, call.intent)
          IN  /\ \A s \in DOMAIN dl : dl[s] = 0
              /\ again.code = 200
              /\ again.db.products = products
              /\ SelectRows(again.db.order_items, call.order_id)
                    = SelectRows(order_items, call.order_id)
              /\ again.db.orders[call.order_id] = orders[call.order_id]
              /\ again.db = DB

\* the first application changed quantities, rows and total: an order of one
\* line was updated, without a rate, to two lines of the same sku, which took
\* the product's last unit
C22_Witness ==
    /\ Handled("update") /\ call.code = 200
    /\ call.intent.gstRate = NoRate
    /\ Len(call.intent.items) = 2
    /\ call.intent.items[1].sku = call.intent.items[2].sku
    /\ call.intent.items[1].sku \in DOMAIN products
    /\ products[call.intent.items[1].sku].quantity = 0
    /\ products # call.before.products
    /\ orders[call.order_id].total_cost # call.before.orders[call.order_id].total_cost
\* C21: whatever updateOrder and deleteOrder calls run beside it, a get_order
\* that answers an order returns a totalCost equal to subtotal x (1 + returned
\* gstRate) of the items it returns.
C21_GetOrderConsistent ==
    \A p \in Procs :
        (proc[p].pc = "done" /\ proc[p].op = "get" /\ proc[p].code = 200)
           => proc[p].got.totalCost
                 = subtotal(proc[p].got.items) * (RateScale + proc[p].got.gstRate)
\* C23: a createOrder, updateOrder or deleteOrder that took the write lock
\* ends in exactly one of commit and rollback and gives the lock back on every
\* path: the lock is held exactly by the threads between BEGIN IMMEDIATE and
\* their response, a thread that holds it eventually has answered without it,
\* and a held lock always becomes free again.
C23_ScopeReleased ==
    /\ [](\A p \in Procs :
            /\ write_lock = p <=> proc[p].pc \in {"begun", "validated"}
            /\ proc[p].pc \in {"begun", "validated"} => proc[p].ended = "none"
            /\ proc[p].pc = "done" => proc[p].ended \in {"commit", "rollback"})
    /\ \A p \in Procs : (write_lock = p) ~> (proc[p].pc = "done" /\ write_lock # p)
    /\ (write_lock # NoProc) ~> (write_lock = NoProc)

\* a handler that failed on its payload has rolled back and answered, and the
\* other thread has taken the lock after it, having been refused before
C23_Witness ==
    /\ proc["t1"].pc = "done" /\ proc["t1"].error.kind = "exception"
    /\ proc["t1"].ended = "rollback"
    /\ write_lock = "t2"
    /\ proc["t2"].pc = "validated"
====
